---- MODULE Spec2Model ----
(***************************************************************************)
(* Thickness integration and material-matrix evaluation of                 *)
(* examples/gsMaterialMatrix_test.cpp: the z-extended adapter gsIntegrantZ, *)
(* the integrators gsIntegrateZ and gsIntegrate, the isotropic evaluator   *)
(* gsMaterialMatrix and the laminate evaluator gsMaterialMatrixD.          *)
(*                                                                         *)
(* real_t values are modelled exactly, as elements (a + b*sqrt(3))/d of    *)
(* the field Q(sqrt 3): it holds the rationals and the nodes of the        *)
(* two-point Gauss rule, so every quantity the evaluators compute on the   *)
(* modelled inputs is represented without rounding.                        *)
(***************************************************************************)
EXTENDS Integers, Sequences, FiniteSets, TLC

(* ------------------------------ bounds --------------------------------- *)
\* largest number of query columns handed to an eval_into
MaxCols == 2
\* largest number of plies of a laminate
MaxPlies == 2
\* largest number of eval_into calls on one instance
MaxCalls == 2
\* largest number of setPoint calls on one adapter
MaxSets == 2
\* largest number of evaluators, copies and pieces ever created
MaxObjs == 5
\* the caller's changes to the objects it built evaluators from, per run
MaxSteps == 1
\* the caller's copy assignments and writes to _mm_piece, per run
MaxWrites == 1

(* ------------------------- real_t arithmetic --------------------------- *)
AbsInt(n) == IF n < 0 THEN -n ELSE n

RECURSIVE GCD(_, _)
GCD(a, b) == IF b = 0 THEN a ELSE GCD(b, a % b)

\* (a + b*sqrt(3))/d in lowest terms with a positive denominator
Num(a, b, d) ==
    LET s == IF d < 0 THEN -1 ELSE 1
        g == GCD(GCD(AbsInt(a), AbsInt(b)), AbsInt(d))
    IN  <<(s * a) \div g, (s * b) \div g, (s * d) \div g>>

Rat(n, d) == Num(n, 0, d)
Scalar(n) == <<n, 0, 1>>
Zero == Scalar(0)
One == Scalar(1)
Two == Scalar(2)
\* an indeterminate value: what a coefficient read before it was ever
\* written holds, which may be any value at all; whatever is computed from
\* one is indeterminate too
Indeterminate == <<0, 0, 0>>

\* the sum, over the least common denominator
Add(x, y) ==
    IF Indeterminate \in {x, y} THEN Indeterminate
    ELSE IF x = Zero THEN y
    ELSE IF y = Zero THEN x
    ELSE LET g == GCD(x[3], y[3])
             p == y[3] \div g
             q == x[3] \div g
         IN  Num(x[1] * p + y[1] * q, x[2] * p + y[2] * q, x[3] * p)
Neg(x) == <<-x[1], -x[2], x[3]>>
Sub(x, y) == Add(x, Neg(y))
\* the product, with the common factors of numerators and denominators
\* cancelled before multiplying
Mul(x, y) ==
    IF Indeterminate \in {x, y} THEN Indeterminate
    ELSE IF Zero \in {x, y} THEN Zero ELSE
    LET g == GCD(GCD(AbsInt(x[1]), AbsInt(x[2])), y[3])
        h == GCD(GCD(AbsInt(y[1]), AbsInt(y[2])), x[3])
        a == x[1] \div g
        b == x[2] \div g
        c == y[1] \div h
        e == y[2] \div h
    IN  Num(a * c + 3 * b * e, a * e + b * c, (x[3] \div h) * (y[3] \div g))
\* x / y for y # 0, through the conjugate of y
Div(x, y) ==
    IF Indeterminate \in {x, y} THEN Indeterminate ELSE
    Mul(x, Num(y[3] * y[1], -(y[3] * y[2]), y[1] * y[1] - 3 * y[2] * y[2]))

\* sign of a + b*sqrt(3)
SignNum(x) ==
    LET a == x[1]
        b == x[2]
    IN  IF a >= 0 /\ b >= 0 THEN (IF a = 0 /\ b = 0 THEN 0 ELSE 1)
        ELSE IF a <= 0 /\ b <= 0 THEN -1
        ELSE IF a > 0 THEN (IF a * a > 3 * b * b THEN 1 ELSE -1)
        ELSE (IF 3 * b * b > a * a THEN 1 ELSE -1)
\* math::abs
AbsNum(x) == IF SignNum(x) < 0 THEN Neg(x) ELSE x

RECURSIVE Pow(_, _)
\* math::pow(x, n) for a natural exponent
Pow(x, n) == IF n = 0 THEN One ELSE Mul(x, Pow(x, n - 1))

RECURSIVE SumSeq(_)
\* sum of a sequence of numbers, left to right from 0 (std::accumulate)
SumSeq(s) == IF s = <<>> THEN Zero ELSE Add(SumSeq(SubSeq(s, 1, Len(s) - 1)), s[Len(s)])

\* the square root of a rational that is a perfect square
SqrtNum(x) ==
    LET n == CHOOSE k \in 0..x[1] : k * k = x[1]
        d == CHOOSE k \in 1..x[3] : k * k = x[3]
    IN  Rat(n, d)

(* ------------------------------ gsMatrix ------------------------------- *)
\* a dense matrix: its shape and its coefficients in column-major order
Mat(r, c, d) == [rows |-> r, cols |-> c, data |-> <<>> \o d]
EmptyMat == Mat(0, 0, <<>>)
\* coefficient (i, j), 0-based
At(M, i, j) == M.data[j * M.rows + i + 1]
\* the r x c matrix whose coefficient (i, j) is F[i, j]
MatOf(r, c, F) ==
    Mat(r, c, [k \in 1..(r * c) |-> F[(k - 1) % r, (k - 1) \div r]])
\* a matrix filled with one value
Fill(r, c, v) == Mat(r, c, [k \in 1..(r * c) |-> v])
\* M with coefficient (i, j) set to v
SetAt(M, i, j, v) == [M EXCEPT !.data[j * M.rows + i + 1] = v]
\* column j as a sequence
Col(M, j) == [i \in 1..M.rows |-> At(M, i - 1, j)]
\* a sequence as a one-column matrix
ColMat(s) == Mat(Len(s), 1, s)
\* rows given as a sequence of sequences
FromRows(rs) ==
    MatOf(Len(rs), IF rs = <<>> THEN 0 ELSE Len(rs[1]), [i \in Nat, j \in Nat |-> rs[i + 1][j + 1]])

\* a fresh r x c allocation over memory that holds the values g, one after
\* the other and over again: with g of one value every coefficient is that
\* value, with a longer g the coefficients differ from one another
Uninitialized(r, c, g) == Mat(r, c, [k \in 1..(r * c) |-> g[((k - 1) % Len(g)) + 1]])
\* memory that happens to hold zeros
Zeroed == <<Zero>>
\* memory of which nothing is known
Unknown == <<Indeterminate>>
\* gsMatrix::resize(r, c): the coefficients are kept when their number does
\* not change and are otherwise those of a fresh, uninitialised allocation,
\* which holds what the memory g held
Resize(M, r, c, g) ==
    IF M.rows * M.cols = r * c THEN Mat(r, c, M.data) ELSE Uninitialized(r, c, g)

Transpose(M) == MatOf(M.cols, M.rows, [i \in Nat, j \in Nat |-> At(M, j, i)])
MatMul(A, B) ==
    MatOf(A.rows, B.cols,
          [i \in Nat, j \in Nat |-> SumSeq([k \in 1..A.cols |-> Mul(At(A, i, k - 1), At(B, k - 1, j))])])
MatAdd(A, B) == MatOf(A.rows, A.cols, [i \in Nat, j \in Nat |-> Add(At(A, i, j), At(B, i, j))])
MatScale(A, s) == MatOf(A.rows, A.cols, [i \in Nat, j \in Nat |-> Mul(At(A, i, j), s)])
\* gsMatrix::reshape(r, c): the same coefficients seen with another shape
Reshape(M, r, c) == Mat(r, c, M.data)
Identity3 == MatOf(3, 3, [i \in Nat, j \in Nat |-> IF i = j THEN One ELSE Zero])

(* --------------------- gsFunctionExpr / gsConstantFunction -------------- *)
\* one term c * x1^e1 * ... * xd^ed of an expression
Term(c, e) == [c |-> c, e |-> e]

RECURSIVE ProdPow(_, _, _)
\* p[1]^e[1] * ... * p[k]^e[k]
ProdPow(p, e, k) == IF k = 0 THEN One ELSE Mul(ProdPow(p, e, k - 1), Pow(p[k], e[k]))

TermValue(t, p) == Mul(t.c, ProdPow(p, t.e, Len(t.e)))
\* the value at point p of one component, a sum of terms
ExprValue(poly, p) == SumSeq([k \in 1..Len(poly) |-> TermValue(poly[k], p)])

\* gsFunctionExpr<> fun("1*x","2*y","x*y*z^2",3)
FunXYZ ==
    [dom |-> 3,
     comps |-> << <<Term(One, <<1, 0, 0>>)>>,
                  <<Term(Two, <<0, 1, 0>>)>>,
                  <<Term(One, <<1, 1, 2>>)>> >>]
\* the highest power of fun3 of main
MaxDeg == 8
\* gsFunctionExpr<> fun3("1","x","x^2","x^3","x^4","x^5","x^6","x^7","x^8",1)
FunMonomials ==
    [dom |-> 1, comps |-> [n \in 1..(MaxDeg + 1) |-> <<Term(One, <<n - 1>>)>>]]
\* a field of two variables, ("x+y","x*y",2)
FunXZ ==
    [dom |-> 2,
     comps |-> << <<Term(One, <<1, 0>>), Term(One, <<0, 1>>)>>,
                  <<Term(One, <<1, 1>>)>> >>]
\* a field whose last variable enters with the powers 3 and 4, ("y*z^3","x*z^4",3)
FunQuartic ==
    [dom |-> 3,
     comps |-> << <<Term(One, <<0, 1, 3>>)>>,
                  <<Term(One, <<1, 0, 4>>)>> >>]
\* gsConstantFunction<>(c, d): the constant vector c on a domain of dimension d
ConstantFunction(c, d) ==
    [dom |-> d, comps |-> [i \in 1..Len(c) |-> <<Term(c[i], [k \in 1..d |-> 0])>>]]
\* the thickness field 1 + x of two variables, ("1+x",2)
FunThickX ==
    [dom |-> 2, comps |-> << <<Term(One, <<0, 0>>), Term(One, <<1, 0>>)>> >>]

domainDim(f) == f.dom
targetDim(f) == Len(f.comps)
\* the values of the field at one point, given as the sequence of its coordinates
EvalPoint(f, p) == [i \in 1..targetDim(f) |-> ExprValue(f.comps[i], p)]
\* gsFunction::eval_into(u, result): one column of values per column of u
FunctionEvalInto(f, u) ==
    MatOf(targetDim(f), u.cols, [i \in Nat, j \in Nat |-> ExprValue(f.comps[i + 1], Col(u, j))])

(* ----------------------------- gsIntegrantZ ---------------------------- *)
\* M.replicate(rf, cf)
Replicate(M, rf, cf) ==
    MatOf(M.rows * rf, M.cols * cf, [i \in Nat, j \in Nat |-> At(M, i % M.rows, j % M.cols)])
\* M.topRows(m) = S
SetTopRows(M, m, S) ==
    MatOf(M.rows, M.cols, [i \in Nat, j \in Nat |-> IF i < m THEN At(S, i, j) ELSE At(M, i, j)])
\* M.bottomRows(k) = S
SetBottomRows(M, k, S) ==
    MatOf(M.rows, M.cols,
          [i \in Nat, j \in Nat |-> IF i >= M.rows - k THEN At(S, i - (M.rows - k), j) ELSE At(M, i, j)])

\* gsIntegrantZ(const gsFunction<T> & fun): the base point is not set yet
IntegrantZ(fun) == [fun |-> fun, surfPts |-> EmptyMat, tmp |-> EmptyMat]

\* gsIntegrantZ(const gsIntegrantZ &other), which clone() uses: _fun and
\* _surfPts are copied, tmp is not
IntegrantZ_copy(other) == [fun |-> other.fun, surfPts |-> other.surfPts, tmp |-> EmptyMat]
\* the adapter as the gsFunction of one variable that an integrator built
\* over it evaluates: z |-> fun(p, z) for its base point p; defined when the
\* base point is one column of domainDim - 1 coordinates
IntegrantZ_asFunction(self) ==
    LET p == Col(self.surfPts, 0)
        d == domainDim(self.fun)
    IN  [dom |-> 1,
         comps |-> [i \in 1..targetDim(self.fun) |->
                      [k \in 1..Len(self.fun.comps[i]) |->
                          Term(Mul(self.fun.comps[i][k].c,
                                   ProdPow(p, self.fun.comps[i][k].e, d - 1)),
                               <<self.fun.comps[i][k].e[d]>>)]]]

\* a setPoint that keeps a base point that was set before
IntegrantZ_setPoint_keepsFirst(self, surfPts) ==
    IF self.surfPts = EmptyMat THEN [self EXCEPT !.surfPts = surfPts] ELSE self

IntegrantZ_setPoint(self, surfPts) == [self EXCEPT !.surfPts = surfPts]

\* the assertions without the one on the columns of the base point
IntegrantZ_asserts_noCols(self, u) ==
    IF u.rows # 1 THEN "u.rows()==1"
    ELSE IF domainDim(self.fun) # self.surfPts.rows + 1
         THEN "_fun->domainDim()==_surfPts.rows()+1"
    ELSE ""

\* the three GISMO_ASSERTs of gsIntegrantZ::eval_into, in their order: the
\* name of the first one that fails, or "" when all hold
IntegrantZ_asserts(self, u) ==
    IF u.rows # 1 THEN "u.rows()==1"
    ELSE IF domainDim(self.fun) # self.surfPts.rows + 1
         THEN "_fun->domainDim()==_surfPts.rows()+1"
    ELSE IF self.surfPts.cols # 1 THEN "_surfPts.cols()==1"
    ELSE ""

\* the matrix of full points that gsIntegrantZ::eval_into hands to _fun
IntegrantZ_tmp(self, u, g) ==
    LET m == self.surfPts.rows
        N == u.cols
        t0 == Resize(self.tmp, m + 1, N, g)
        t1 == SetTopRows(t0, m, Replicate(self.surfPts, 1, N))
    IN  SetBottomRows(t1, 1, u)

\* gsIntegrantZ::eval_into(u, result); g is what uninitialised memory holds.
\* Yields the adapter (its scratch tmp), the result, whether the call was
\* aborted by an assertion, and the events of the call in their order.
IntegrantZ_eval_into(self, u, result, g) ==
    LET a == IntegrantZ_asserts(self, u)
        tmp == IntegrantZ_tmp(self, u, g)
    IN  IF a # ""
        THEN [self |-> self, result |-> result, failed |-> TRUE, assert |-> a,
              log |-> <<[ev |-> "GISMO_ASSERT", at |-> EmptyMat]>>]
        ELSE [self |-> [self EXCEPT !.tmp = tmp],
              result |-> FunctionEvalInto(self.fun, tmp),
              failed |-> FALSE, assert |-> "",
              log |-> <<[ev |-> "_fun->eval_into", at |-> tmp]>>]

(* ------------------ gsKnotVector / gsExprEvaluator --------------------- *)
\* gsKnotVector<>(first, last, interior, mult_ends): the breakpoints of the
\* uniform knot vector and its degree mult_ends - 1
KnotVector(first, last, interior, mult_ends) ==
    [breaks |-> [k \in 1..(interior + 2) |->
                    Add(first, Mul(Rat(k - 1, interior + 1), Sub(last, first)))],
     degree |-> mult_ends - 1]
\* quadrature nodes per element: the evaluator's default rule, degree + 1
NumNodes(kv) == kv.degree + 1
\* the Gauss-Legendre rule with n nodes on [-1, 1]: nodes and weights
GaussRule(n) ==
    IF n = 1 THEN [nodes |-> <<Zero>>, weights |-> <<Two>>]
    ELSE [nodes |-> <<Num(0, -1, 3), Num(0, 1, 3)>>, weights |-> <<One, One>>]
\* the rule mapped to the element [a, b]
ElementRule(a, b, n) ==
    LET c == Div(Add(a, b), Two)
        h == Div(Sub(b, a), Two)
        r == GaussRule(n)
    IN  [nodes |-> Mat(1, n, [q \in 1..n |-> Add(c, Mul(h, r.nodes[q]))]),
         weights |-> [q \in 1..n |-> Mul(h, r.weights[q])]]
\* the elements of the grid and the quadrature nodes of element e, a row
NumElements(kv) == Len(kv.breaks) - 1
ElementNodes(kv, e) == ElementRule(kv.breaks[e], kv.breaks[e + 1], NumNodes(kv)).nodes

RECURSIVE IntegralFrom(_, _, _, _, _)
\* elements e, e+1, ... of ev.integral(f.tr()[i]): vals[e] is the
\* integrand's eval_into at the nodes of element e, a record with the
\* fields failed and result; acc is the sum so far
IntegralFrom(vals, i, kv, e, acc) ==
    IF e > Len(kv.breaks) - 1 THEN [failed |-> FALSE, value |-> acc]
    ELSE LET rule == ElementRule(kv.breaks[e], kv.breaks[e + 1], NumNodes(kv))
             val == vals[e]
             part == SumSeq([q \in 1..Len(rule.weights) |->
                                Mul(rule.weights[q], At(val.result, i, q - 1))])
         IN  IF val.failed THEN [failed |-> TRUE, value |-> acc]
             ELSE IntegralFrom(vals, i, kv, e + 1, Add(acc, part))
\* ev.integral(f.tr()[i]); ev.value(): component i of f over the elements of kv
Integral(vals, i, kv) == IntegralFrom(vals, i, kv, 1, Zero)

(* ----------------------------- gsIntegrateZ ---------------------------- *)
\* gsIntegrateZ(const gsFunction<T> & fun, T thickness)
IntegrateZ(fun, thickness) == [fun |-> fun, t |-> thickness]

\* a grid over [-t, t], twice the thickness
IntegrateZ_KV_fullT(self) == KnotVector(Neg(self.t), self.t, 1, 1 + 1)

\* gsKnotVector<> KV(-_t/2.0, _t/2.0, k, p+1) with k = 1, p = 1
IntegrateZ_KV(self) == KnotVector(Div(Neg(self.t), Two), Div(self.t, Two), 1, 1 + 1)

\* an integrand that is row 0 of the field whatever the row asked for
IntegrateZ_value_row0(self, i) ==
    Integral([e \in 1..NumElements(IntegrateZ_KV(self)) |->
                 [failed |-> FALSE,
                  result |-> FunctionEvalInto(self.fun, ElementNodes(IntegrateZ_KV(self), e))]],
             0, IntegrateZ_KV(self)).value

\* the integrand of row i: integrant.tr()[i] over the variable of *_fun
IntegrateZ_value(self, i) ==
    Integral([e \in 1..NumElements(IntegrateZ_KV(self)) |->
                 [failed |-> FALSE,
                  result |-> FunctionEvalInto(self.fun, ElementNodes(IntegrateZ_KV(self), e))]],
             i, IntegrateZ_KV(self)).value

\* gsIntegrateZ::eval_into(u, result)
IntegrateZ_eval_into(self, u, result, g) ==
    LET r0 == Resize(result, targetDim(self.fun), u.cols, g)
    IN  [self |-> self,
         result |-> MatOf(r0.rows, r0.cols, [i \in Nat, j \in Nat |-> IntegrateZ_value(self, i)]),
         failed |-> FALSE, assert |-> "",
         log |-> [n \in 1..(r0.rows * r0.cols) |->
                     [ev |-> "integral", i |-> (n - 1) \div r0.cols, j |-> (n - 1) % r0.cols]]]

(* ------------------------------ gsIntegrate ---------------------------- *)
\* gsIntegrate(const gsFunction<T> & fun, gsFunction<T> & thickFun)
Integrate(fun, thickFun) == [fun |-> fun, t |-> thickFun, thickMat |-> EmptyMat]

\* a half thickness taken at the first query point whatever the column
Integrate_tHalf_col0(thickMat, j) == Div(At(thickMat, 0, 0), Two)

\* tHalf = thickMat(0,j)/2.0
Integrate_tHalf(thickMat, j) == Div(At(thickMat, 0, j), Two)
\* gsKnotVector<> KV(-tHalf, tHalf, 2, 2)
Integrate_KV(tHalf) == KnotVector(Neg(tHalf), tHalf, 2, 2)
\* integrant.setPoint(u.col(j))
Integrate_setPoint(integrant, u, j) == IntegrantZ_setPoint(integrant, ColMat(Col(u, j)))

RECURSIVE Integrate_loop(_, _, _, _, _)
\* the loop with the grid and the integration of the first component only
Integrate_loop_firstRow(self, u, thickMat, n, st) ==
    IF st.failed \/ n >= u.cols THEN st
    ELSE LET i == n \div u.cols
             j == n % u.cols
             tHalf == Integrate_tHalf(thickMat, j)
             KV == Integrate_KV(tHalf)
             integrant == Integrate_setPoint(st.integrant, u, j)
             v == Integral([e \in 1..NumElements(KV) |->
                               IntegrantZ_eval_into(integrant, ElementNodes(KV, e),
                                                    EmptyMat, Zeroed)],
                           i, KV)
             ev == [ev |-> "integral", i |-> i, j |-> j, KV |-> KV.breaks,
                    point |-> integrant.surfPts]
         IN  Integrate_loop(self, u, thickMat, n + 1,
                 [result |-> IF v.failed THEN st.result ELSE SetAt(st.result, i, j, v.value),
                  integrant |-> integrant,
                  log |-> Append(st.log, ev),
                  failed |-> v.failed])

\* the iterations n, n+1, ... of the double loop of gsIntegrate::eval_into,
\* row i = n \div cols outermost, column j = n % cols innermost; st holds the
\* result, the local adapter, the events so far and whether the call aborted
Integrate_loop(self, u, thickMat, n, st) ==
    IF st.failed \/ n >= targetDim(self.fun) * u.cols THEN st
    ELSE LET i == n \div u.cols
             j == n % u.cols
             tHalf == Integrate_tHalf(thickMat, j)
             KV == Integrate_KV(tHalf)
             integrant == Integrate_setPoint(st.integrant, u, j)
             v == Integral([e \in 1..NumElements(KV) |->
                               IntegrantZ_eval_into(integrant, ElementNodes(KV, e),
                                                    EmptyMat, Zeroed)],
                           i, KV)
             ev == [ev |-> "integral", i |-> i, j |-> j, KV |-> KV.breaks,
                    point |-> integrant.surfPts]
         IN  Integrate_loop(self, u, thickMat, n + 1,
                 [result |-> IF v.failed THEN st.result ELSE SetAt(st.result, i, j, v.value),
                  integrant |-> integrant,
                  log |-> Append(st.log, ev),
                  failed |-> v.failed])

\* gsIntegrate::eval_into(u, result)
Integrate_eval_into(self, u, result, g) ==
    LET thickMat == FunctionEvalInto(self.t, u)
        r0 == Resize(result, targetDim(self.fun), u.cols, g)
        st == Integrate_loop(self, u, thickMat, 0,
                  [result |-> r0, integrant |-> IntegrantZ(self.fun),
                   log |-> <<>>, failed |-> FALSE])
    IN  [self |-> [self EXCEPT !.thickMat = thickMat],
         result |-> st.result, failed |-> st.failed, log |-> st.log,
         assert |-> IF st.failed THEN "gsIntegrantZ::eval_into" ELSE ""]

(* ------------------------- geometry (gsMapData) ------------------------ *)
\* an affine surface patch embedded in 3D: x(p) = origin + jac * p, with the
\* constant 3 x 2 Jacobian jac
Patch(origin, jac) == [origin |-> origin, jac |-> jac]
\* gsNurbsCreator<>::BSplineSquare(1) after mp.embed(3): the unit square
PatchSquare ==
    Patch(<<Zero, Zero, Zero>>,
          FromRows(<< <<One, Zero>>, <<Zero, One>>, <<Zero, Zero>> >>))
\* the square stretched by 2 along its first parameter
PatchStretched ==
    Patch(<<Zero, Zero, Zero>>,
          FromRows(<< <<Two, Zero>>, <<Zero, One>>, <<Zero, Zero>> >>))
\* a sheared parallelogram
PatchSheared ==
    Patch(<<Zero, Zero, Zero>>,
          FromRows(<< <<One, One>>, <<Zero, One>>, <<Zero, Zero>> >>))

\* _tmp.values[0]: the physical points of the parameter points pts (2 x N)
MapValues(mp, pts) ==
    MatOf(3, pts.cols,
          [i \in Nat, j \in Nat |-> Add(mp.origin[i + 1],
                            Add(Mul(At(mp.jac, i, 0), At(pts, 0, j)),
                                Mul(At(mp.jac, i, 1), At(pts, 1, j))))])
\* _tmp.jacobian(i)
MapJacobian(mp, i) == mp.jac
\* _tmp.normal(i): the cross product of the columns of the Jacobian
MapNormal(mp, i) ==
    LET a == Col(mp.jac, 0)
        b == Col(mp.jac, 1)
    IN  <<Sub(Mul(a[2], b[3]), Mul(a[3], b[2])),
          Sub(Mul(a[3], b[1]), Mul(a[1], b[3])),
          Sub(Mul(a[1], b[2]), Mul(a[2], b[1]))>>
\* v.normalized()
Normalized(v) ==
    LET n == SqrtNum(SumSeq([k \in 1..Len(v) |-> Mul(v[k], v[k])]))
    IN  [k \in 1..Len(v) |-> Div(v[k], n)]

\* the determinant of a 3 x 3 matrix
Det3(M) ==
    Add(Sub(Mul(At(M, 0, 0), Sub(Mul(At(M, 1, 1), At(M, 2, 2)), Mul(At(M, 1, 2), At(M, 2, 1)))),
            Mul(At(M, 0, 1), Sub(Mul(At(M, 1, 0), At(M, 2, 2)), Mul(At(M, 1, 2), At(M, 2, 0))))),
        Mul(At(M, 0, 2), Sub(Mul(At(M, 1, 0), At(M, 2, 1)), Mul(At(M, 1, 1), At(M, 2, 0)))))
\* M.inverse() of an invertible 3 x 3 matrix: the adjugate over the determinant
Inverse3(M) ==
    LET d == Det3(M)
        cof(i, j) ==
            LET r1 == (i + 1) % 3
                r2 == (i + 2) % 3
                c1 == (j + 1) % 3
                c2 == (j + 2) % 3
            IN  Sub(Mul(At(M, r1, c1), At(M, r2, c2)), Mul(At(M, r1, c2), At(M, r2, c1)))
    IN  MatOf(3, 3, [i \in Nat, j \in Nat |-> Div(cof(j, i), d)])
\* the cofactor of entry (i, j) of a 3 x 3 matrix, read from M as it is now
Cofactor3(M, i, j) ==
    LET i1 == (i + 1) % 3
        i2 == (i + 2) % 3
        j1 == (j + 1) % 3
        j2 == (j + 2) % 3
    IN  Sub(Mul(At(M, i1, j1), At(M, i2, j2)), Mul(At(M, i1, j2), At(M, i2, j1)))
\* entry (i, j) of the operand overwritten with its cofactor (j, i) over det
InverseStep(M, i, j, det) == SetAt(M, i, j, Div(Cofactor3(M, j, i), det))
\* the entries written after row 0, in the order they are written
InverseOrder == << <<1, 0>>, <<1, 1>>, <<1, 2>>, <<2, 0>>, <<2, 1>>, <<2, 2>> >>
RECURSIVE InverseWrites(_, _, _)
\* the operand after the first k of these writes
InverseWrites(M, k, det) ==
    IF k = 0 THEN M
    ELSE InverseStep(InverseWrites(M, k - 1, det), InverseOrder[k][1], InverseOrder[k][2], det)
\* M = M.inverse() computed in the storage of M itself: the first column of
\* cofactors and the determinant are taken from M, row 0 is written, then
\* the entries (1,0) (1,1) (1,2) (2,0) (2,1) (2,2) one after the other, each
\* from the cofactor of the matrix as overwritten so far
InverseInPlace3(M) ==
    LET c0 == [k \in 1..3 |-> Cofactor3(M, k - 1, 0)]
        det == SumSeq([k \in 1..3 |-> Mul(c0[k], At(M, k - 1, 0))])
        m0 == MatOf(3, 3, [i \in Nat, j \in Nat |->
                              IF i = 0 THEN Div(c0[j + 1], det) ELSE At(M, i, j)])
    IN  InverseWrites(m0, Len(InverseOrder), det)

(* ------------------------------- doubles ------------------------------- *)
\* A comparison of two real_t with == compares doubles. A double that is not
\* zero is sign s, a mantissa m of 53 bits (2^52 <= m < 2^53) and an
\* exponent e, of value s * m * 2^e; m is held as five limbs of 13 bits, the
\* least significant first. Exponents stay far from the ends of the range.
Limb == 2^13
DoubleZero == [s |-> 0, m |-> <<0, 0, 0, 0, 0>>, e |-> 0]
\* limb x (from 0) of the natural number L, 0 beyond its length
BigLimb(L, x) == IF x < 0 \/ x >= Len(L) THEN 0 ELSE L[x + 1]
\* the 13 bits of L from bit p upwards
BigWindow(L, p) ==
    LET q == IF p >= 0 THEN p \div 13 ELSE -((12 - p) \div 13)
        r == p - 13 * q
    IN  (BigLimb(L, q) \div 2^r) + (BigLimb(L, q + 1) % 2^r) * 2^(13 - r)
\* bit i of L
BigBit(L, i) == BigWindow(L, i) % 2
\* the number of bits of L # 0
BigLen(L) ==
    LET top == CHOOSE k \in 1..Len(L) : L[k] # 0 /\ \A j \in (k + 1)..Len(L) : L[j] = 0
        w == CHOOSE b \in 1..13 : 2^(b - 1) <= L[top] /\ L[top] < 2^b
    IN  13 * (top - 1) + w
\* m + 1 for a mantissa m
BigInc(m) ==
    LET t == CHOOSE k \in 1..Len(m) : m[k] # Limb - 1 /\ \A j \in 1..(k - 1) : m[j] = Limb - 1
    IN  <<>> \o [k \in 1..Len(m) |-> IF k < t THEN 0 ELSE IF k = t THEN m[k] + 1 ELSE m[k]]
\* the double nearest to s * (L + f) * 2^e, ties to even, where 0 <= f < 1
\* and sticky says whether f # 0
RoundToDouble(s, L, e, sticky) ==
    LET lo == BigLen(L) - 53
        kept == <<>> \o [k \in 1..5 |-> IF k < 5 THEN BigWindow(L, lo + 13 * (k - 1))
                                                 ELSE BigBit(L, lo + 52)]
        guard == BigBit(L, lo - 1)
        rest == sticky \/ \E i \in 0..(lo - 2) : BigBit(L, i) = 1
        up == guard = 1 /\ (rest \/ kept[1] % 2 = 1)
        m == IF up THEN BigInc(kept) ELSE kept
    IN  IF m[5] = 2 THEN [s |-> s, m |-> <<0, 0, 0, 0, 1>>, e |-> e + lo + 1]
        ELSE [s |-> s, m |-> m, e |-> e + lo]
RECURSIVE DivLimbs(_, _, _)
\* the first k limbs of the fraction r/d (0 <= r < d < 2^18), the least
\* significant first, with the last remainder in front
DivLimbs(r, d, k) ==
    IF k = 0 THEN <<r>>
    ELSE CHOOSE f \in {DivLimbs(t % d, d, k - 1) \o <<t \div d>> : t \in {r * Limb}} : TRUE
\* the double that a decimal literal of the rational value x is read as
DoubleOf(x) ==
    IF x[1] = 0 THEN DoubleZero
    ELSE LET n == AbsInt(x[1])
             d == x[3]
             q == n \div d
             f == DivLimbs(n % d, d, 7)
             L == Tail(f) \o <<q % Limb, (q \div Limb) % Limb, q \div (Limb * Limb)>>
         IN  RoundToDouble(IF x[1] < 0 THEN -1 ELSE 1, L, -91, f[1] # 0)
\* the product of the limbs A[i] and B[j], 0 where there is none
BigTerm(A, B, i, j) == IF j < 1 \/ j > Len(B) THEN 0 ELSE A[i] * B[j]
RECURSIVE BigCarry(_, _, _)
\* the limbs of the number whose limb k holds c[k], carries propagated
BigCarry(c, k, carry) ==
    IF k > Len(c) THEN <<>>
    ELSE CHOOSE L \in {<<t % Limb>> \o BigCarry(c, k + 1, t \div Limb) : t \in {c[k] + carry}} : TRUE
\* the product of two mantissas
BigMul(A, B) ==
    BigCarry(<<>> \o [k \in 1..10 |-> BigTerm(A, B, 1, k) + BigTerm(A, B, 2, k - 1)
                                  + BigTerm(A, B, 3, k - 2) + BigTerm(A, B, 4, k - 3)
                                  + BigTerm(A, B, 5, k - 4)], 1, 0)
\* x * y of two doubles: the exact product rounded to the nearest double
DoubleMul(x, y) ==
    IF x.s = 0 \/ y.s = 0 THEN DoubleZero
    ELSE RoundToDouble(x.s * y.s, BigMul(x.m, y.m), x.e + y.e, FALSE)

(* --------------------------- gsMaterialMatrix -------------------------- *)
\* gsMaterialMatrix(mp, YoungsModulus, PoissonRatio): no piece exists yet
MaterialMatrix(mp, YoungsModulus, PoissonRatio) ==
    [mp |-> mp, YoungsModulus |-> YoungsModulus, PoissonRatio |-> PoissonRatio]

\* what F0 = F0.inverse() does, the operand being the destination: the
\* inverse is computed into a temporary first, or in the storage of F0 while
\* it is read, or the assertion on aliasing of inverse() ends the program;
\* and segv, the fault of a read through a pointer to a destroyed object
InverseOutcomes == {"temporary", "inplace", "assert"}
AliasingAssert == "Aliasing problem detected in inverse()"
DanglingRead == "segv"

\* F0: the Jacobian and the unit normal side by side, inverted as a says,
\* times its transpose (the product is evaluated before it is assigned)
MaterialMatrix_F0(mp, i, a) ==
    LET J == MapJacobian(mp, i)
        n == Normalized(MapNormal(mp, i))
        F == MatOf(3, 3, [r \in Nat, c \in Nat |-> IF c < 2 THEN At(J, r, c) ELSE n[r + 1]])
        Finv == IF a = "inplace" THEN InverseInPlace3(F) ELSE Inverse3(F)
    IN  MatMul(Finv, Transpose(Finv))

\* lambda = E * nu / ( (1. + nu)*(1.-2.*nu))
MaterialMatrix_lambda(E, nu) ==
    Div(Mul(E, nu), Mul(Add(One, nu), Sub(One, Mul(Two, nu))))
\* mu = E / (2.*(1. + nu))
MaterialMatrix_mu(E, nu) == Div(E, Mul(Two, Add(One, nu)))
\* C_constant = 4*lambda*mu/(lambda+2*mu)
MaterialMatrix_C_constant(lambda, mu) ==
    Div(Mul(Scalar(4), Mul(lambda, mu)), Add(lambda, Mul(Two, mu)))

\* the 3 x 3 tensor C of one query point, before it is scaled
MaterialMatrix_C(F0, E, nu) ==
    LET lambda == MaterialMatrix_lambda(E, nu)
        mu == MaterialMatrix_mu(E, nu)
        Cc == MaterialMatrix_C_constant(lambda, mu)
        twomu == Mul(Two, mu)
        f(i, j) == At(F0, i, j)
        C00 == Add(Mul(Cc, Mul(f(0, 0), f(0, 0))), Mul(twomu, Mul(Two, Mul(f(0, 0), f(0, 0)))))
        C11 == Add(Mul(Cc, Mul(f(1, 1), f(1, 1))), Mul(twomu, Mul(Two, Mul(f(1, 1), f(1, 1)))))
        C22 == Add(Mul(Cc, Mul(f(0, 1), f(0, 1))),
                   Mul(twomu, Add(Mul(f(0, 0), f(1, 1)), Mul(f(0, 1), f(0, 1)))))
        C01 == Add(Mul(Cc, Mul(f(0, 0), f(1, 1))), Mul(twomu, Mul(Two, Mul(f(0, 1), f(0, 1)))))
        C02 == Add(Mul(Cc, Mul(f(0, 0), f(0, 1))), Mul(twomu, Mul(Two, Mul(f(0, 0), f(0, 1)))))
        C12 == Add(Mul(Cc, Mul(f(0, 1), f(1, 1))), Mul(twomu, Mul(Two, Mul(f(0, 1), f(1, 1)))))
    IN  FromRows(<< <<C00, C01, C02>>, <<C01, C11, C12>>, <<C02, C12, C22>> >>)

\* the tensor scaled by the square of the third coordinate
MaterialMatrix_eval_into_zSquared(self, u, result, g, a) ==
    LET pts == MatOf(2, u.cols, [i \in Nat, j \in Nat |-> At(u, i, j)])
        values == MapValues(self.mp, pts)
        Emat == FunctionEvalInto(self.YoungsModulus, values)
        Nmat == FunctionEvalInto(self.PoissonRatio, values)
        C == [i \in 1..u.cols |->
                 MatScale(MaterialMatrix_C(MaterialMatrix_F0(self.mp, i - 1, a),
                                           At(Emat, 0, i - 1), At(Nmat, 0, i - 1)),
                          Mul(At(u, 2, i - 1), At(u, 2, i - 1)))]
        Cs == <<>> \o C
    IN  [self |-> self,
         result |-> MatOf(9, u.cols, [k \in Nat, i \in Nat |-> Cs[i + 1].data[k + 1]]),
         failed |-> FALSE, assert |-> "",
         log |-> [i \in 1..u.cols |-> [ev |-> "C", i |-> i - 1, inverse |-> a]]]

\* gsMaterialMatrix::eval_into(u, result) for u of 3 rows (x, y, z), a being
\* the outcome of its undefined steps. A read through _mp, _YoungsModulus or
\* _PoissonRatio that faults does so before result is resized; the
\* assertion of inverse() fails in the first iteration, after the resize.
MaterialMatrix_eval_into(self, u, result, g, a) ==
    LET pts == MatOf(2, u.cols, [i \in Nat, j \in Nat |-> At(u, i, j)])
        values == MapValues(self.mp, pts)
        Emat == FunctionEvalInto(self.YoungsModulus, values)
        Nmat == FunctionEvalInto(self.PoissonRatio, values)
        C == [i \in 1..u.cols |->
                 CHOOSE m \in {MatScale(MaterialMatrix_C(F0, E, nu), At(u, 2, i - 1)) :
                                  F0 \in {MaterialMatrix_F0(self.mp, i - 1, a)},
                                  E \in {At(Emat, 0, i - 1)},
                                  nu \in {At(Nmat, 0, i - 1)}} : TRUE]
        Cs == <<>> \o C
    IN  IF a = DanglingRead
        THEN [self |-> self, result |-> result, failed |-> TRUE, assert |-> DanglingRead,
              log |-> <<>>]
        ELSE IF a = "assert" /\ u.cols > 0
        THEN [self |-> self, result |-> Resize(result, 9, u.cols, g), failed |-> TRUE,
              assert |-> AliasingAssert, log |-> <<>>]
        ELSE [self |-> self,
              result |-> MatOf(9, u.cols, [k \in Nat, i \in Nat |-> Cs[i + 1].data[k + 1]]),
              failed |-> FALSE, assert |-> "",
              log |-> [i \in 1..u.cols |-> [ev |-> "C", i |-> i - 1, inverse |-> a]]]

(* -------------------------- gsMaterialMatrixD -------------------------- *)
\* a fibre angle phi with the values math::cos(phi) and math::sin(phi)
Angle(name, c, s) == [name |-> name, cos |-> c, sin |-> s]
math_cos(phi) == phi.cos
math_sin(phi) == phi.sin

\* gsMaterialMatrixD(YoungsModuli, ShearModuli, PoissonRatios, thickness, phi);
\* the scratch members hold nothing yet
MaterialMatrixD(YoungsModuli, ShearModuli, PoissonRatios, thickness, phi) ==
    [YoungsModuli |-> YoungsModuli, ShearModuli |-> ShearModuli,
     PoissonRatios |-> PoissonRatios, thickness |-> thickness, phi |-> phi,
     t_tot |-> Zero, t_temp |-> Zero, z |-> Zero, z_mid |-> Zero,
     Dmat |-> EmptyMat, Tmat |-> EmptyMat]

\* the assertions on the sizes without the one that the laminate is not empty
MaterialMatrixD_asserts_noEmpty(self) ==
    IF Len(self.YoungsModuli) # Len(self.PoissonRatios)
    THEN "_YoungsModuli.size()==_PoissonRatios.size()"
    ELSE IF Len(self.YoungsModuli) # Len(self.ShearModuli)
    THEN "_YoungsModuli.size()==_ShearModuli.size()"
    ELSE IF Len(self.thickness) # Len(self.phi)
    THEN "_thickness.size()==_phi.size()"
    ELSE IF Len(self.YoungsModuli) # Len(self.thickness)
    THEN "_YoungsModuli.size()==_thickness.size()"
    ELSE ""

\* the five GISMO_ASSERTs on the sizes at the head of eval_into, in their
\* order: the name of the first one that fails, or "" when all hold
MaterialMatrixD_asserts(self) ==
    IF Len(self.YoungsModuli) # Len(self.PoissonRatios)
    THEN "_YoungsModuli.size()==_PoissonRatios.size()"
    ELSE IF Len(self.YoungsModuli) # Len(self.ShearModuli)
    THEN "_YoungsModuli.size()==_ShearModuli.size()"
    ELSE IF Len(self.thickness) # Len(self.phi)
    THEN "_thickness.size()==_phi.size()"
    ELSE IF Len(self.YoungsModuli) # Len(self.thickness)
    THEN "_YoungsModuli.size()==_thickness.size()"
    ELSE IF Len(self.YoungsModuli) = 0
    THEN "_YoungsModuli.size()!=0"
    ELSE ""

\* GISMO_ASSERT(nu21*E1 == nu12*E2, ...): the four are doubles, each product
\* is rounded to a double and the two doubles are compared
MaterialMatrixD_symmetric(E1, E2, nu12, nu21) ==
    DoubleMul(DoubleOf(nu21), DoubleOf(E1)) = DoubleMul(DoubleOf(nu12), DoubleOf(E2))

\* the material matrix of one ply in its own axes
MaterialMatrixD_Dmat(E1, E2, G12, nu12, nu21) ==
    LET den == Sub(One, Mul(nu12, nu21))
    IN  FromRows(<< <<Div(E1, den), Div(Mul(nu21, E1), den), Zero>>,
                    <<Div(Mul(nu12, E2), den), Div(E2, den), Zero>>,
                    <<Zero, Zero, G12>> >>)

\* the transformation matrix of the fibre angle phi
MaterialMatrixD_Tmat(phi) ==
    LET c2 == Pow(math_cos(phi), 2)
        s2 == Pow(math_sin(phi), 2)
        sc == Mul(math_sin(phi), math_cos(phi))
    IN  FromRows(<< <<c2, s2, sc>>,
                    <<s2, c2, Mul(sc, Scalar(-1))>>,
                    <<Mul(sc, Scalar(-2)), Mul(sc, Two), Sub(c2, s2)>> >>)

\* Dmat = Tmat.transpose() * Dmat * Tmat
MaterialMatrixD_rotate(Tmat, Dmat) == MatMul(MatMul(Transpose(Tmat), Dmat), Tmat)

\* result.reshape(3,3) += Dmat * t
MaterialMatrixD_accumulate(result, Dmat, t) ==
    Reshape(MatAdd(Reshape(result, 3, 3), MatScale(Dmat, t)), result.rows, result.cols)

RECURSIVE MaterialMatrixD_loop(_, _, _)
\* the plies i, i+1, ... of the loop over the laminate (i is 0-based); st
\* holds the evaluator with its scratch members, the result, the events so
\* far and whether the call aborted
MaterialMatrixD_loop(self, i, st) ==
    IF st.failed \/ i >= Len(self.phi) THEN st
    ELSE LET E1 == self.YoungsModuli[i + 1][1]
             E2 == self.YoungsModuli[i + 1][2]
             G12 == self.ShearModuli[i + 1]
             nu12 == self.PoissonRatios[i + 1][1]
             nu21 == self.PoissonRatios[i + 1][2]
             t == self.thickness[i + 1]
             phi == self.phi[i + 1]
             Tmat == MaterialMatrixD_Tmat(phi)
             Dmat == MaterialMatrixD_rotate(Tmat, MaterialMatrixD_Dmat(E1, E2, G12, nu12, nu21))
             z == AbsNum(Sub(st.self.z_mid, Add(Div(t, Two), st.self.t_temp)))
         IN  IF ~MaterialMatrixD_symmetric(E1, E2, nu12, nu21)
             THEN [st EXCEPT !.failed = TRUE,
                             !.log = Append(@, [ev |-> "GISMO_ASSERT", ply |-> i])]
             ELSE MaterialMatrixD_loop(self, i + 1,
                      [self |-> [st.self EXCEPT !.Dmat = Dmat, !.Tmat = Tmat, !.z = z,
                                                !.t_temp = Add(@, t)],
                       result |-> MaterialMatrixD_accumulate(st.result, Dmat, t),
                       failed |-> FALSE,
                       log |-> st.log \o <<[ev |-> "Dmat", ply |-> i], [ev |-> "Tmat", ply |-> i],
                                           [ev |-> "rotate", ply |-> i],
                                           [ev |-> "accumulate", ply |-> i]>>])

\* result.replicate(1, u.cols()): the replicated matrix is a temporary that
\* is not assigned to anything, so result is what it was
MaterialMatrixD_replicate(result, u) == result

\* gsMaterialMatrixD::eval_into(u, result); g is what uninitialised memory holds
MaterialMatrixD_eval_into(self, u, result, g) ==
    LET a == MaterialMatrixD_asserts(self)
        t_tot == SumSeq(self.thickness)
        s0 == [self EXCEPT !.t_tot = t_tot, !.z_mid = Div(t_tot, Two), !.t_temp = Zero,
                           !.Dmat = Resize(self.Dmat, 3, 3, g),
                           !.Tmat = Resize(self.Tmat, 3, 3, g)]
        st == MaterialMatrixD_loop(self, 0,
                  [self |-> s0, result |-> Resize(result, 9, 1, g), failed |-> FALSE,
                   log |-> <<[ev |-> "t_tot", ply |-> -1], [ev |-> "resize", ply |-> -1]>>])
    IN  IF a # ""
        THEN [self |-> self, result |-> result, failed |-> TRUE,
              log |-> <<[ev |-> "GISMO_ASSERT", ply |-> -1]>>, assert |-> a]
        ELSE IF st.failed
        THEN [self |-> st.self, result |-> st.result, failed |-> TRUE, log |-> st.log,
              assert |-> "nu21*E1 == nu12*E2"]
        ELSE IF st.self.t_tot # st.self.t_temp
        THEN [self |-> st.self, result |-> st.result, failed |-> TRUE, log |-> st.log,
              assert |-> "t_tot==t_temp"]
        ELSE [self |-> st.self, result |-> MaterialMatrixD_replicate(st.result, u),
              failed |-> FALSE, log |-> st.log, assert |-> ""]

(* ------------------ gsMaterialMatrix: pieces and copies ---------------- *)
\* The gsMaterialMatrix objects of a run, evaluators, their copies and their
\* pieces alike, are numbered 1..MaxObjs in the order they are created; 0 is
\* nullptr. Each is a record: state is "unused", "alive" or "destroyed",
\* mm_piece is the member _mm_piece, kind tells how the object was created,
\* owner is the object whose piece() or clone() created it (0 for a
\* constructed one), patch is the index its piece() was given, calls counts
\* the piece() calls made on it and deletes the times it was destroyed.
Objs == 1..MaxObjs
NoObj == [state |-> "unused", mm_piece |-> 0, kind |-> "", owner |-> 0, patch |-> 0,
          npatches |-> 0, calls |-> 0, deletes |-> 0]
NoObjs == [o \in Objs |-> NoObj]
\* the next object to be created, 0 when the bound is reached
Fresh(h) == IF \E o \in Objs : h[o].state = "unused"
            THEN CHOOSE o \in Objs : h[o].state = "unused" /\
                                     \A q \in Objs : h[q].state = "unused" => o <= q
            ELSE 0

\* gsMaterialMatrix(mp, YoungsModulus, PoissonRatio): _mm_piece(nullptr); np
\* is the number of patches of mp
MaterialMatrix_new(h, o, kind, owner, k, np) ==
    [h EXCEPT ![o] = [state |-> "alive", mm_piece |-> 0, kind |-> kind, owner |-> owner,
                      patch |-> k, npatches |-> np, calls |-> 0, deletes |-> 0]]

RECURSIVE MaterialMatrix_delete(_, _)
\* delete p: nothing for nullptr; else ~gsMaterialMatrix() { delete _mm_piece; }
\* runs on the object and its memory is released. Deleting an object that
\* was deleted before is counted in deletes and releases nothing more.
MaterialMatrix_delete(h, p) ==
    IF p = 0 THEN h
    ELSE IF h[p].state # "alive" THEN [h EXCEPT ![p].deletes = @ + 1]
    ELSE LET h1 == [h EXCEPT ![p].state = "destroyed", ![p].deletes = @ + 1]
         IN  MaterialMatrix_delete(h1, h[p].mm_piece)

\* the destroyed objects that an object alive still points to
Dangling(h) ==
    {d \in Objs : h[d].state = "destroyed" /\
                     \E x \in Objs : h[x].state = "alive" /\ h[x].mm_piece = d}
\* operator new gives the object n the address that the destroyed object d
\* had (d = 0: an address no pointer holds): every pointer that was left
\* pointing to d now points to n
Reused(h, d, n) ==
    IF d = 0 THEN h
    ELSE [x \in Objs |-> IF h[x].state = "alive" /\ h[x].mm_piece = d
                         THEN [h[x] EXCEPT !.mm_piece = n]
                         ELSE h[x]]

\* a piece() that does not delete the piece it replaces
MaterialMatrix_piece_leak(h, e, k, d) ==
    LET n == Fresh(h)
        h2 == MaterialMatrix_new(Reused(h, d, n), n, "piece", e, k, 1)
    IN  [h2 EXCEPT ![e].mm_piece = n, ![e].calls = @ + 1]

\* piece(k): delete _mm_piece; _mm_piece = new gsMaterialMatrix(_mp->piece(k), ...)
\* with the new piece at the address of d
MaterialMatrix_piece(h, e, k, d) ==
    LET h1 == MaterialMatrix_delete(h, h[e].mm_piece)
        n == Fresh(h1)
        h2 == MaterialMatrix_new(Reused(h1, d, n), n, "piece", e, k, 1)
    IN  [h2 EXCEPT ![e].mm_piece = n, ![e].calls = @ + 1]

\* GISMO_CLONE_FUNCTION(gsMaterialMatrix): new gsMaterialMatrix(*this), the
\* implicit copy constructor, which copies every member, _mm_piece included,
\* into a new object at the address of d
MaterialMatrix_clone(h, e, d) ==
    LET n == Fresh(h)
        h1 == Reused(h, d, n)
    IN  [h1 EXCEPT ![n] = [state |-> "alive", mm_piece |-> h1[e].mm_piece, kind |-> "copy",
                           owner |-> e, patch |-> h[e].patch, npatches |-> h[e].npatches,
                           calls |-> 0, deletes |-> 0]]

\* gsMaterialMatrix::operator=(const gsMaterialMatrix &), implicitly declared:
\* memberwise copy of _mp, _YoungsModulus, _PoissonRatio and _mm_piece
MaterialMatrix_assign(h, e, f) ==
    [h EXCEPT ![e].mm_piece = h[f].mm_piece, ![e].patch = h[f].patch,
              ![e].npatches = h[f].npatches]

\* an object was deleted twice
DoubleDelete(h) == \E o \in Objs : h[o].deletes > 1

(* ------------------------------- inputs -------------------------------- *)
\* coordinates of query points and base points
Coord == {Scalar(1), Scalar(2)}
\* all m x n matrices of coordinates
Matrices(m, n) == {Mat(m, n, d) : d \in [1..(m * n) -> Coord]}
\* what setPoint may be given: one or two columns of 0, 1 or 2 coordinates
BasePoints == UNION {Matrices(m, c) : m \in 0..2, c \in 1..2}
\* what the adapter may be evaluated at: rows of z values, and 2-row inputs
ZInputs == UNION {Matrices(1, n) : n \in 1..MaxCols} \cup Matrices(2, 1)
\* the fields an adapter is built over
AdapterFields == {FunXYZ, FunXZ, FunMonomials}
\* what a 9 x 1 result of main was allocated over, the coefficients 4 and 8
\* holding 1 and the others 0
MainGarbage == <<Zero, Zero, Zero, Zero, One, Zero, Zero, Zero, One>>
\* contents that the memory of a fresh allocation has been found to hold:
\* zeros, one other value throughout, a mix of both, and those of main
UninitSamples == {Zeroed, <<Scalar(7)>>, <<Zero, Zero, Scalar(7)>>, MainGarbage}
\* what the memory of a fresh allocation may hold: one of these contents, or
\* anything else, such as what a block released earlier was left with; of
\* the coefficients of such a block nothing is known
Uninit == UninitSamples \cup {Unknown}

\* constant vectors of one or two components
ConstVectors ==
    LET V == {Scalar(1), Scalar(2), Scalar(-3)}
    IN  {<<a>> : a \in V} \cup {<<a, b>> : a \in V, b \in V}
\* the fields gsIntegrateZ is built over: functions of the one variable z
IntegrateZFields == {FunMonomials} \cup {ConstantFunction(c, 1) : c \in ConstVectors}
Thicknesses == {Scalar(1), Scalar(2), Rat(1, 2)}

\* the fields gsIntegrate is built over and its thickness fields
IntegrateFields == {FunXYZ, FunQuartic, FunXZ}
ThicknessFields == {FunThickX, ConstantFunction(<<One>>, 2), ConstantFunction(<<Two>>, 2)}
\* the matrix whose columns are the sequences cs[1], cs[2], ... of length m
FromCols(m, cs) ==
    Mat(m, Len(cs), [k \in 1..(m * Len(cs)) |-> cs[((k - 1) \div m) + 1][((k - 1) % m) + 1]])
\* the query matrices of 1..MaxCols columns of m rows that take consecutive
\* columns, cyclically, from the sequence cols
QueryPoints(m, cols) ==
    {FromCols(m, [k \in 1..n |-> cols[((s + k - 2) % Len(cols)) + 1]]) :
        n \in 1..MaxCols, s \in 1..Len(cols)}
\* query points of gsIntegrate: columns (x, y)
IntegratePoints ==
    QueryPoints(2, << <<One, One>>, <<Two, One>>, <<One, Two>>, <<Two, Two>> >>)

\* query columns (x, y, z) of the isotropic evaluator
MaterialPoints ==
    QueryPoints(3, << <<One, One, One>>, <<One, Two, Two>>, <<Two, One, Zero>>,
                      <<One, Two, Scalar(-1)>> >>)
Patches == {PatchSquare, PatchStretched, PatchSheared}
\* query points of gsIntegrateZ: rows of z values, which it does not read
IntegrateZPoints == {Fill(1, n, c) : n \in 1..MaxCols, c \in Coord}
\* Young's modulus fields of the physical point: "1", "1+x"
YoungsFields ==
    {ConstantFunction(<<One>>, 3),
     [dom |-> 3, comps |-> << <<Term(One, <<0, 0, 0>>), Term(One, <<1, 0, 0>>)>> >>]}
\* Poisson ratio fields: "0", "0.25"
PoissonFields == {ConstantFunction(<<Zero>>, 3), ConstantFunction(<<Rat(1, 4)>>, 3)}

\* fibre angles: 0, pi/2, pi and the angle of the 3-4-5 triangle
Angle0 == Angle("0", One, Zero)
Angle90 == Angle("pi/2", Zero, One)
Angle180 == Angle("pi", Scalar(-1), Zero)
Angle345 == Angle("atan(3/4)", Rat(4, 5), Rat(3, 5))
\* one ply: moduli (E1, E2), G12, Poisson ratios (nu12, nu21), thickness, angle
Ply(E, G, nu, t, phi) == [E |-> E, G |-> G, nu |-> nu, t |-> t, phi |-> phi]
\* the ply of main: 300, 200, 100, 0.3, 0.2, 0.1 at the angle phi
PlyMain(phi) ==
    Ply(<<Scalar(300), Scalar(200)>>, Scalar(100), <<Rat(3, 10), Rat(1, 5)>>, Rat(1, 10), phi)
\* a second elastically symmetric ply
PlySoft(phi) == Ply(<<Two, One>>, One, <<Rat(1, 2), Rat(1, 4)>>, One, phi)
\* a ply that is not elastically symmetric: nu21*E1 = 90, nu12*E2 = 60
PlyAsym(phi) ==
    Ply(<<Scalar(300), Scalar(200)>>, Scalar(100), <<Rat(3, 10), Rat(3, 10)>>, Rat(1, 10), phi)
\* a ply given as 3.0, 1.0, 0.3, 0.1: the doubles read from 0.3 and 0.1 are
\* not 3/10 and 1/10, and 0.1*3 is 0.30000000000000004 where 0.3*1 is 0.3
PlyRounded(phi) == Ply(<<Scalar(3), One>>, One, <<Rat(3, 10), Rat(1, 10)>>, One, phi)
PlyTypes == {PlyMain(Angle0), PlyMain(Angle90), PlySoft(Angle345), PlySoft(Angle180),
             PlyAsym(Angle0), PlyRounded(Angle0)}
Stacks == UNION {[1..n -> PlyTypes] : n \in 0..MaxPlies}
\* s without its last element, s itself when it is empty
DropLast(s) == IF s = <<>> THEN s ELSE SubSeq(s, 1, Len(s) - 1)
\* the five vectors the caller builds from a stack of plies; short names the
\* one vector, if any, that the caller left one entry short
LaminateOf(st, short) ==
    LET cut(name, s) == IF short = name THEN DropLast(s) ELSE s
    IN  MaterialMatrixD(cut("E", [k \in 1..Len(st) |-> st[k].E]),
                        cut("G", [k \in 1..Len(st) |-> st[k].G]),
                        cut("nu", [k \in 1..Len(st) |-> st[k].nu]),
                        cut("t", [k \in 1..Len(st) |-> st[k].t]),
                        cut("phi", [k \in 1..Len(st) |-> st[k].phi]))
Laminates == {LaminateOf(st, short) : st \in Stacks, short \in {"", "E", "G", "nu", "t", "phi"}}
\* the patch indices piece() is given
PatchIndices == {0, 1}
\* the numbers of patches of the geometries evaluators are constructed over
PatchCounts == {1, 2}
\* query points of the laminate evaluator: n columns (x, y)
LaminatePoints == {Fill(2, n, One) : n \in 1..MaxCols}

(* ------------------------------- state --------------------------------- *)
VARIABLES
    integrant,    \* the adapter gsIntegrantZ fun2
    lastPoint,    \* the argument of the latest setPoint on it (history)
    nsets,        \* the number of setPoint calls made on it (history)
    integratorZ,  \* the gsIntegrateZ
    integrate,    \* the gsIntegrate
    materialMat,  \* the gsMaterialMatrix
    laminate,     \* the gsMaterialMatrixD
    result,       \* gsMatrix<> result, the output argument of every call
    call,         \* the latest eval_into: evaluator, points, outcome, events
    ncalls,       \* the number of eval_into calls made
    pieces,       \* the gsMaterialMatrix objects: objs, and whether a double
                  \* delete aborted the program
    origin        \* the caller's own fields and ply data, from which the
                  \* evaluators were constructed: alive or destroyed, and
                  \* their values now

vars == <<integrant, lastPoint, nsets, integratorZ, integrate, materialMat, laminate,
          result, call, ncalls, pieces, origin>>
\* the variables of the evaluations, and those of the objects' lifetimes
evalVars == <<integrant, lastPoint, nsets, integratorZ, integrate, materialMat, laminate,
              result, call, ncalls>>
lifetimeVars == <<pieces, origin>>

NoCall == [op |-> "", u |-> EmptyMat, failed |-> FALSE, log |-> <<>>, assert |-> ""]

\* the objects as main builds them
MainIntegrant == IntegrantZ(FunXYZ)
MainIntegratorZ == IntegrateZ(FunMonomials, One)
MainIntegrate == Integrate(FunXYZ, ConstantFunction(<<One>>, 2))
MainMaterialMat ==
    MaterialMatrix(PatchSquare, ConstantFunction(<<One>>, 3), ConstantFunction(<<Zero>>, 3))
MainLaminate == LaminateOf(<<PlyMain(Angle90)>>, "")

\* main constructs one gsMaterialMatrix, materialMat, which is object 1
MainPieces == [objs |-> MaterialMatrix_new(NoObjs, 1, "evaluator", 0, 0, 1), aborted |-> FALSE,
               writes |-> 0]

\* an object of the caller: alive, with its value
Own(v) == [alive |-> TRUE, val |-> v]
\* the fields and the ply data of main; steps counts the caller's changes
MainOrigin ==
    [fun |-> Own(FunXYZ), thickFun |-> Own(ConstantFunction(<<One>>, 2)),
     mp |-> Own(PatchSquare), E |-> Own(ConstantFunction(<<One>>, 3)),
     nu |-> Own(ConstantFunction(<<Zero>>, 3)), plies |-> Own(<<PlyMain(Angle90)>>),
     steps |-> 0]

InitCommon ==
    /\ pieces = MainPieces
    /\ origin = MainOrigin
    /\ lastPoint = EmptyMat
    /\ nsets = 0
    /\ result = EmptyMat
    /\ call = NoCall
    /\ ncalls = 0

Init ==
    /\ InitCommon
    /\ integrant = MainIntegrant
    /\ integratorZ = MainIntegratorZ
    /\ integrate = MainIntegrate
    /\ materialMat = MainMaterialMat
    /\ laminate = MainLaminate

\* a failed GISMO_ASSERT ends the program; the instance takes at most MaxCalls calls
CanCall == ~call.failed /\ ncalls < MaxCalls

\* the record of a call: r is what the eval_into yields
CallOf(op, u, r) ==
    [op |-> op, u |-> u, failed |-> r.failed, log |-> r.log, assert |-> r.assert]

(* ------------------------------ actions -------------------------------- *)
\* fun2.setPoint(p)
SetPoint(p) ==
    /\ ~call.failed
    /\ nsets < MaxSets
    /\ integrant' = IntegrantZ_setPoint(integrant, p)
    /\ lastPoint' = p
    /\ nsets' = nsets + 1
    /\ call' = [op |-> "gsIntegrantZ::setPoint", u |-> p, failed |-> FALSE, log |-> <<>>,
                assert |-> ""]
    /\ UNCHANGED <<integratorZ, integrate, materialMat, laminate, result, ncalls>>
    /\ UNCHANGED lifetimeVars

\* fun2.eval_into(u, result)
IntegrantZEval(u, g) ==
    /\ ~call.failed
    /\ \E r \in {IntegrantZ_eval_into(integrant, u, result, g)} :
           /\ integrant' = r.self
           /\ result' = r.result
           /\ call' = CallOf("gsIntegrantZ", u, r)
    /\ UNCHANGED <<lastPoint, nsets, integratorZ, integrate, materialMat, laminate, ncalls>>
    /\ UNCHANGED lifetimeVars

\* integrator.eval_into(u, result)
IntegrateZEval(u, g) ==
    /\ ~call.failed
    /\ \E r \in {IntegrateZ_eval_into(integratorZ, u, result, g)} :
           /\ integratorZ' = r.self
           /\ result' = r.result
           /\ call' = CallOf("gsIntegrateZ", u, r)
    /\ UNCHANGED <<integrant, lastPoint, nsets, integrate, materialMat, laminate, ncalls>>
    /\ UNCHANGED lifetimeVars

\* integrate.eval_into(u, result)
IntegrateEval(u, g) ==
    /\ ~call.failed
    /\ \E r \in {Integrate_eval_into(integrate, u, result, g)} :
           /\ integrate' = r.self
           /\ result' = r.result
           /\ call' = CallOf("gsIntegrate", u, r)
    /\ UNCHANGED <<integrant, lastPoint, nsets, integratorZ, materialMat, laminate, ncalls>>
    /\ UNCHANGED lifetimeVars

\* materialMat.eval_into(u, result); the read through a pointer can fault
\* only when the caller's object it points to was destroyed
MaterialEval(u, g, a) ==
    /\ ~call.failed
    /\ a = DanglingRead => \E name \in {"mp", "E", "nu"} : ~origin[name].alive
    /\ \E r \in {MaterialMatrix_eval_into(materialMat, u, result, g, a)} :
           /\ materialMat' = r.self
           /\ result' = r.result
           /\ call' = CallOf("gsMaterialMatrix", u, r)
    /\ UNCHANGED <<integrant, lastPoint, nsets, integratorZ, integrate, laminate, ncalls>>
    /\ UNCHANGED lifetimeVars

\* Dmat.eval_into(u, result)
LaminateEval(u, g) ==
    /\ CanCall
    /\ \E r \in {MaterialMatrixD_eval_into(laminate, u, result, g)} :
           /\ laminate' = r.self
           /\ result' = r.result
           /\ call' = CallOf("gsMaterialMatrixD", u, r)
    /\ ncalls' = ncalls + 1
    /\ UNCHANGED <<integrant, lastPoint, nsets, integratorZ, integrate, materialMat>>
    /\ UNCHANGED lifetimeVars

\* the outcomes of an action that leaves the objects h: a double delete is
\* undefined, the program may abort on it or run on
AfterDelete(h) ==
    {[pieces EXCEPT !.objs = h, !.aborted = a] :
         a \in IF DoubleDelete(h) THEN {TRUE, FALSE} ELSE {FALSE}}

\* new gsMaterialMatrix(mp, E, nu): a further evaluator is constructed over
\* a geometry of np patches, at a new address or at one a dangling pointer
\* holds
Construct(np) ==
    /\ ~pieces.aborted
    /\ Fresh(pieces.objs) # 0
    /\ \E d \in {0} \cup Dangling(pieces.objs) :
           pieces' = [pieces EXCEPT
                        !.objs = MaterialMatrix_new(Reused(@, d, Fresh(pieces.objs)),
                                                    Fresh(pieces.objs), "evaluator", 0, 0, np)]
    /\ UNCHANGED <<evalVars, origin>>

\* e.piece(k) on an evaluator or a copy of one, for a patch k that its
\* geometry has; the new piece is at a new address or at one a dangling
\* pointer holds
Piece(e, k) ==
    /\ ~pieces.aborted
    /\ pieces.objs[e].state = "alive"
    /\ pieces.objs[e].kind # "piece"
    /\ k < pieces.objs[e].npatches
    /\ Fresh(pieces.objs) # 0
    /\ \E d \in {0} \cup Dangling(MaterialMatrix_delete(pieces.objs, pieces.objs[e].mm_piece)) :
           pieces' \in AfterDelete(MaterialMatrix_piece(pieces.objs, e, k, d))
    /\ UNCHANGED <<evalVars, origin>>

\* e.clone(), as gsIntegrate's constructor and gsIntegrantZ's do with fun.clone()
Clone(e) ==
    /\ ~pieces.aborted
    /\ pieces.objs[e].state = "alive"
    /\ pieces.objs[e].kind # "piece"
    /\ Fresh(pieces.objs) # 0
    /\ \E d \in {0} \cup Dangling(pieces.objs) :
           pieces' = [pieces EXCEPT !.objs = MaterialMatrix_clone(@, e, d)]
    /\ UNCHANGED <<evalVars, origin>>

\* e = f, the implicitly declared copy assignment: every member of f is
\* copied into e, _mm_piece included, and the piece e held is not deleted
Assign(e, f) ==
    /\ ~pieces.aborted
    /\ e # f
    /\ pieces.objs[e].state = "alive" /\ pieces.objs[e].kind # "piece"
    /\ pieces.objs[f].state = "alive" /\ pieces.objs[f].kind # "piece"
    /\ pieces.writes < MaxWrites
    /\ pieces' = [pieces EXCEPT !.objs = MaterialMatrix_assign(@, e, f), !.writes = @ + 1]
    /\ UNCHANGED <<evalVars, origin>>

\* e._mm_piece = p, a write to the public member from outside the class: p
\* is nullptr or the address of an object
StorePiece(e, p) ==
    /\ ~pieces.aborted
    /\ pieces.objs[e].state = "alive" /\ pieces.objs[e].kind # "piece"
    /\ p # e
    /\ p # 0 => pieces.objs[p].state = "alive"
    /\ p # pieces.objs[e].mm_piece
    /\ pieces.writes < MaxWrites
    /\ pieces' = [pieces EXCEPT !.objs[e].mm_piece = p, !.writes = @ + 1]
    /\ UNCHANGED <<evalVars, origin>>

\* the evaluator or copy e goes out of scope or is deleted by its owner
Destroy(e) ==
    /\ ~pieces.aborted
    /\ pieces.objs[e].state = "alive"
    /\ pieces.objs[e].kind # "piece"
    /\ pieces' \in AfterDelete(MaterialMatrix_delete(pieces.objs, e))
    /\ UNCHANGED <<evalVars, origin>>

\* what the caller may change one of its objects to
OriginValues(name) ==
    CASE name = "fun" -> {FunXYZ, FunQuartic}
      [] name = "thickFun" -> {ConstantFunction(<<One>>, 2), ConstantFunction(<<Two>>, 2)}
      [] name = "mp" -> {PatchSquare, PatchStretched}
      [] name = "E" -> YoungsFields
      [] name = "nu" -> PoissonFields
      [] name = "plies" -> {<<PlyMain(Angle90)>>, <<PlyMain(Angle0)>>}
OriginNames == {"fun", "thickFun", "mp", "E", "nu", "plies"}
\* gsMaterialMatrix keeps the addresses of its three arguments, _mp(&mp),
\* _YoungsModulus(&YoungsModulus), _PoissonRatio(&PoissonRatio): what it
\* reads through them is what the caller's object holds now. The other
\* evaluators keep fun.clone() or a copy of the vectors.
SeenThroughPointer(mm, name, v) ==
    CASE name = "mp" -> [mm EXCEPT !.mp = v]
      [] name = "E" -> [mm EXCEPT !.YoungsModulus = v]
      [] name = "nu" -> [mm EXCEPT !.PoissonRatio = v]
      [] OTHER -> mm

\* the caller assigns the value v to its object name
MutateOrigin(name, v) ==
    /\ ~call.failed
    /\ origin[name].alive
    /\ origin.steps < MaxSteps
    /\ v # origin[name].val
    /\ origin' = [origin EXCEPT ![name].val = v, !.steps = @ + 1]
    /\ materialMat' = SeenThroughPointer(materialMat, name, v)
    /\ UNCHANGED <<integrant, lastPoint, nsets, integratorZ, integrate, laminate, result,
                   call, ncalls, pieces>>

\* the caller's object name is destroyed; w is what a later read through a
\* pointer to it finds in its place
DestroyOrigin(name, w) ==
    /\ ~call.failed
    /\ origin[name].alive
    /\ origin.steps < MaxSteps
    /\ origin' = [origin EXCEPT ![name].alive = FALSE, !.steps = @ + 1]
    /\ materialMat' = SeenThroughPointer(materialMat, name, w)
    /\ UNCHANGED <<integrant, lastPoint, nsets, integratorZ, integrate, laminate, result,
                   call, ncalls, pieces>>

(* --------------------------- specifications ---------------------------- *)
\* the adapter alone, over every field it may wrap
InitIntegrantZ ==
    /\ InitCommon
    /\ integrant \in {IntegrantZ(f) : f \in AdapterFields}
    /\ integratorZ = MainIntegratorZ
    /\ integrate = MainIntegrate
    /\ materialMat = MainMaterialMat
    /\ laminate = MainLaminate
NextIntegrantZ ==
    \/ \E p \in BasePoints : SetPoint(p)
    \/ \E u \in ZInputs, g \in Uninit : IntegrantZEval(u, g)
SpecIntegrantZ == InitIntegrantZ /\ [][NextIntegrantZ]_vars

\* the fixed-bound integrator, over its fields and thicknesses
InitIntegrateZ ==
    /\ InitCommon
    /\ integrant = MainIntegrant
    /\ integratorZ \in {IntegrateZ(f, t) : f \in IntegrateZFields, t \in Thicknesses}
    /\ integrate = MainIntegrate
    /\ materialMat = MainMaterialMat
    /\ laminate = MainLaminate
NextIntegrateZ == \E u \in IntegrateZPoints, g \in Uninit : IntegrateZEval(u, g)
SpecIntegrateZ == InitIntegrateZ /\ [][NextIntegrateZ]_vars

\* the variable-bound integrator, over its fields and thickness fields
InitIntegrate ==
    /\ InitCommon
    /\ integrant = MainIntegrant
    /\ integratorZ = MainIntegratorZ
    /\ integrate \in {Integrate(f, t) : f \in IntegrateFields, t \in ThicknessFields}
    /\ materialMat = MainMaterialMat
    /\ laminate = MainLaminate
NextIntegrate == \E u \in IntegratePoints, g \in Uninit : IntegrateEval(u, g)
SpecIntegrate == InitIntegrate /\ [][NextIntegrate]_vars

\* the isotropic evaluator, over patches and material fields
InitMaterial ==
    /\ InitCommon
    /\ integrant = MainIntegrant
    /\ integratorZ = MainIntegratorZ
    /\ integrate = MainIntegrate
    /\ materialMat \in {MaterialMatrix(mp, E, nu) :
                           mp \in Patches, E \in YoungsFields, nu \in PoissonFields}
    /\ laminate = MainLaminate
NextMaterial == \E u \in MaterialPoints, g \in Uninit, a \in InverseOutcomes : MaterialEval(u, g, a)
SpecMaterial == InitMaterial /\ [][NextMaterial]_vars

\* the laminate evaluator, over every laminate of at most MaxPlies plies
InitLaminate ==
    /\ InitCommon
    /\ integrant = MainIntegrant
    /\ integratorZ = MainIntegratorZ
    /\ integrate = MainIntegrate
    /\ materialMat = MainMaterialMat
    /\ laminate \in Laminates
NextLaminate == \E u \in LaminatePoints, g \in Uninit : LaminateEval(u, g)
SpecLaminate == InitLaminate /\ [][NextLaminate]_vars

\* the same laminates and calls for the checks that eval_into makes before
\* it reads the result: fresh memory holds zeros, or nothing is known of it
NextLaminateChecks == \E u \in LaminatePoints, g \in {Zeroed, Unknown} : LaminateEval(u, g)
SpecLaminateChecks == InitLaminate /\ [][NextLaminateChecks]_vars

\* evaluators, their pieces and their destruction, without copies
NextPiece ==
    \/ \E np \in PatchCounts : Construct(np)
    \/ \E e \in Objs, k \in PatchIndices : Piece(e, k)
    \/ \E e \in Objs : Destroy(e)
SpecPiece == Init /\ [][NextPiece]_vars

\* the same with copies of evaluators
NextPieceCopy ==
    \/ \E np \in PatchCounts : Construct(np)
    \/ \E e \in Objs, k \in PatchIndices : Piece(e, k)
    \/ \E e \in Objs : Clone(e)
    \/ \E e \in Objs, f \in Objs : Assign(e, f)
    \/ \E e \in Objs, p \in {0} \cup Objs : StorePiece(e, p)
    \/ \E e \in Objs : Destroy(e)
SpecPieceCopy == Init /\ [][NextPieceCopy]_vars

\* main's adapter fun2 after setPoint, and gsIntegrateZ integrator2(fun2, bound)
CloneIntegrant == IntegrantZ_setPoint(IntegrantZ(MainOrigin.fun.val), ColMat(<<One, One>>))
CloneIntegratorZ == IntegrateZ(IntegrantZ_asFunction(IntegrantZ_copy(CloneIntegrant)), One)
\* the five evaluators built from the caller's objects, which the caller
\* then changes or destroys while it goes on evaluating the adapter, the two
\* integrators and the isotropic evaluator; the laminate evaluator holds its
\* ply vectors by value and is only compared field by field
InitClone ==
    /\ pieces = MainPieces
    /\ origin \in {MainOrigin}
    /\ lastPoint = ColMat(<<One, One>>)
    /\ nsets = 1
    /\ result = EmptyMat
    /\ call = NoCall
    /\ ncalls = 0
    /\ integrant \in {CloneIntegrant}
    /\ integratorZ \in {CloneIntegratorZ}
    /\ integrate \in {Integrate(MainOrigin.fun.val, MainOrigin.thickFun.val)}
    /\ materialMat \in {MaterialMatrix(MainOrigin.mp.val, MainOrigin.E.val,
                                       MainOrigin.nu.val)}
    /\ laminate \in {LaminateOf(MainOrigin.plies.val, "")}
NextClone ==
    \/ \E name \in OriginNames : \E v \in OriginValues(name) : MutateOrigin(name, v)
    \/ \E name \in OriginNames : \E w \in OriginValues(name) : DestroyOrigin(name, w)
    \/ \E p \in {ColMat(<<Two, One>>)} : SetPoint(p)
    \/ \E u \in {Mat(1, 1, <<Two>>)}, g \in {Zeroed} : IntegrantZEval(u, g)
    \/ \E u \in {Mat(1, 1, <<One>>)}, g \in {Zeroed} : IntegrateZEval(u, g)
    \/ \E u \in {ColMat(<<One, Two>>)}, g \in {Zeroed} : IntegrateEval(u, g)
    \/ \E u \in {ColMat(<<One, Two, One>>)}, g \in {Zeroed},
          a \in InverseOutcomes \cup {DanglingRead} : MaterialEval(u, g, a)
SpecClone == InitClone /\ [][NextClone]_vars

\* the objects of main, every operation on them
Next ==
    \/ \E p \in BasePoints : SetPoint(p)
    \/ \E u \in ZInputs, g \in Uninit : IntegrantZEval(u, g)
    \/ \E u \in IntegrateZPoints, g \in Uninit : IntegrateZEval(u, g)
    \/ \E u \in IntegratePoints, g \in Uninit : IntegrateEval(u, g)
    \/ \E u \in MaterialPoints, g \in Uninit, a \in InverseOutcomes : MaterialEval(u, g, a)
    \/ \E u \in LaminatePoints, g \in Uninit : LaminateEval(u, g)
Spec == Init /\ [][Next]_vars

(* ------------------------------- claims -------------------------------- *)
\* the events of kind ev in a log
EventsOf(log, ev) == {k \in 1..Len(log) : log[k].ev = ev}

\* C1: after an eval_into of the adapter that was not aborted, the base
\* point set last is one column of d-1 coordinates, the result has one
\* column per z value, and column k of the result is exactly what the
\* underlying field yields at the point (p, z_k), p being the base point
\* handed to the latest setPoint.
C1_AdapterEqualsUnderlying ==
    (call.op = "gsIntegrantZ" /\ ~call.failed) =>
        /\ lastPoint.cols = 1
        /\ lastPoint.rows + 1 = domainDim(integrant.fun)
        /\ result.rows = targetDim(integrant.fun)
        /\ result.cols = call.u.cols
        /\ \A k \in 0..(call.u.cols - 1) :
               Col(result, k) =
                   EvalPoint(integrant.fun, Col(lastPoint, 0) \o <<At(call.u, 0, k)>>)
\* the adapter over the field of main, evaluated at two z values after its
\* base point was set twice
C1_Witness ==
    /\ call.op = "gsIntegrantZ"
    /\ ~call.failed
    /\ integrant.fun = FunXYZ
    /\ nsets = 2
    /\ lastPoint = ColMat(<<Two, One>>)
    /\ call.u = Mat(1, 2, <<One, Two>>)
    /\ Col(result, 1) = <<Two, Two, Scalar(8)>>

\* C10: an eval_into of the adapter is aborted exactly when the input has
\* not 1 row, or the domain dimension of the field is not the length of the
\* base point plus 1, or the base point has not exactly 1 column (which
\* includes a base point that was never set); and an aborted call has not
\* evaluated the underlying field.
C10_AdapterPreconditions ==
    call.op = "gsIntegrantZ" =>
        /\ call.failed <=> \/ call.u.rows # 1
                           \/ domainDim(integrant.fun) # lastPoint.rows + 1
                           \/ lastPoint.cols # 1
        /\ call.failed => EventsOf(call.log, "_fun->eval_into") = {}
        /\ ~call.failed => EventsOf(call.log, "_fun->eval_into") # {}
\* the adapter over a field of one variable, evaluated at a 1-row input
\* before any setPoint: only the assertion on the columns can fail
C10_Witness ==
    /\ call.op = "gsIntegrantZ"
    /\ call.failed
    /\ nsets = 0
    /\ call.u.rows = 1
    /\ domainDim(integrant.fun) = 1
    /\ call.assert = "_surfPts.cols()==1"

\* the integral of z^n over [-h, h]: 0 for odd n, 2 h^(n+1) / (n+1) for even n
MonomialIntegral(n, h) ==
    IF n % 2 = 1 THEN Zero ELSE Div(Mul(Two, Pow(h, n + 1)), Scalar(n + 1))
\* the integral over z in [-h, h] of one component, its first variables
\* fixed at the coordinates p and z its last variable
ExactIntegralZ(poly, p, h) ==
    SumSeq([k \in 1..Len(poly) |->
               Mul(Mul(poly[k].c, ProdPow(p, poly[k].e, Len(p))),
                   MonomialIntegral(poly[k].e[Len(p) + 1], h))])
\* the highest power of the last variable in one component
ZDegree(poly) ==
    CHOOSE n \in 0..MaxDeg + 1 :
        /\ \E k \in 1..Len(poly) : poly[k].e[Len(poly[k].e)] = n
        /\ \A k \in 1..Len(poly) : poly[k].e[Len(poly[k].e)] <= n
\* the field is a constant vector
IsConstant(f) ==
    \A i \in 1..targetDim(f) :
        /\ Len(f.comps[i]) = 1
        /\ \A k \in 1..domainDim(f) : f.comps[i][1].e[k] = 0
\* the quadrature of component i of f(p, z) over z in [-h, h] on the grid of
\* gsIntegrate, computed on the field itself
QuadratureAt(f, i, p, h) ==
    LET KV == KnotVector(Neg(h), h, 2, 2)
    IN  Integral([e \in 1..NumElements(KV) |->
                     [failed |-> FALSE,
                      result |-> Mat(targetDim(f), NumNodes(KV),
                                     [k \in 1..(targetDim(f) * NumNodes(KV)) |->
                                         ExprValue(f.comps[((k - 1) % targetDim(f)) + 1],
                                                   p \o <<ElementNodes(KV, e).data[
                                                             ((k - 1) \div targetDim(f)) + 1]>>)])]],
                 i, KV).value

\* C2: after an eval_into of the variable-bound integrator that was not
\* aborted, the result has targetDim rows and one column per query point,
\* and for every row i and column j the integration that produced
\* result(i,j) ran with the base point u_j over the grid from
\* -thickness(u_j)/2 to +thickness(u_j)/2, and result(i,j) is the quadrature
\* of component i of f(u_j, z) over that interval, which is the exact
\* integral whenever the component has degree at most 3 in z.
C2_IntegratePerColumn ==
    (call.op = "gsIntegrate" /\ ~call.failed) =>
        LET f == integrate.fun
            u == call.u
        IN  /\ result.rows = targetDim(f)
            /\ result.cols = u.cols
            /\ Len(call.log) = targetDim(f) * u.cols
            /\ \A i \in 0..(targetDim(f) - 1), j \in 0..(u.cols - 1) :
                   LET h == Div(ExprValue(integrate.t.comps[1], Col(u, j)), Two)
                       e == call.log[i * u.cols + j + 1]
                   IN  /\ e.i = i /\ e.j = j
                       /\ e.point = ColMat(Col(u, j))
                       /\ e.KV[1] = Neg(h)
                       /\ e.KV[Len(e.KV)] = h
                       /\ At(result, i, j) = QuadratureAt(f, i, Col(u, j), h)
                       /\ ZDegree(f.comps[i + 1]) <= 3 =>
                              At(result, i, j) = ExactIntegralZ(f.comps[i + 1], Col(u, j), h)
\* "x*y*z^2" with the thickness 1+x at the columns (1,2) and (2,2): the
\* thicknesses 2 and 3 give 1*2*(2/3) = 4/3 and 2*2*(9/4) = 9
C2_Witness ==
    /\ call.op = "gsIntegrate"
    /\ ~call.failed
    /\ integrate.fun = FunXYZ
    /\ integrate.t = FunThickX
    /\ call.u = FromCols(2, << <<One, Two>>, <<Two, Two>> >>)
    /\ At(result, 2, 0) = Rat(4, 3)
    /\ At(result, 2, 1) = Scalar(9)

\* C3: after an eval_into of the fixed-bound integrator over a constant
\* vector field c with the thickness t, the result has targetDim rows and
\* one column per query point and every entry of row i is c_i * t.
C3_ConstantTimesThickness ==
    (call.op = "gsIntegrateZ" /\ ~call.failed /\ IsConstant(integratorZ.fun)) =>
        /\ result.rows = targetDim(integratorZ.fun)
        /\ result.cols = call.u.cols
        /\ \A i \in 0..(result.rows - 1), j \in 0..(result.cols - 1) :
               At(result, i, j) = Mul(integratorZ.fun.comps[i + 1][1].c, integratorZ.t)
\* the constant field (2, -3) with the thickness 1/2 at two query points
C3_Witness ==
    /\ call.op = "gsIntegrateZ"
    /\ ~call.failed
    /\ integratorZ.fun = ConstantFunction(<<Scalar(2), Scalar(-3)>>, 1)
    /\ integratorZ.t = Rat(1, 2)
    /\ call.u.cols = 2
    /\ result = Mat(2, 2, <<One, Rat(-3, 2), One, Rat(-3, 2)>>)

\* C4: after an eval_into of the fixed-bound integrator over the monomials
\* 1, z, ..., z^MaxDeg with the thickness t, row n of the result is 0 for
\* every odd n, and t^(n+1) / (2^n (n+1)) for every even n up to the degree
\* 2 * NumNodes - 1 that the rule of NumNodes nodes per element integrates
\* exactly.
C4_MonomialIntegrals ==
    (call.op = "gsIntegrateZ" /\ ~call.failed /\ integratorZ.fun = FunMonomials) =>
        /\ result.rows = MaxDeg + 1
        /\ \A n \in 0..MaxDeg, j \in 0..(result.cols - 1) :
               /\ n % 2 = 1 => At(result, n, j) = Zero
               /\ (n % 2 = 0 /\ n <= 2 * NumNodes(IntegrateZ_KV(integratorZ)) - 1) =>
                      At(result, n, j) =
                          Div(Pow(integratorZ.t, n + 1), Scalar((2 ^ n) * (n + 1)))
\* the monomials with the thickness 2: z^2 integrates to 8 / (4 * 3) and z^3 to 0
C4_Witness ==
    /\ call.op = "gsIntegrateZ"
    /\ ~call.failed
    /\ integratorZ.fun = FunMonomials
    /\ integratorZ.t = Two
    /\ At(result, 0, 0) = Two
    /\ At(result, 2, 0) = Rat(2, 3)
    /\ At(result, 3, 0) = Zero

\* the analytic plane-stress isotropic stiffness tensor of E and nu
PlaneStress(E, nu) ==
    LET den == Sub(One, Mul(nu, nu))
    IN  FromRows(<< <<Div(E, den), Div(Mul(nu, E), den), Zero>>,
                    <<Div(Mul(nu, E), den), Div(E, den), Zero>>,
                    <<Zero, Zero, Div(E, Mul(Two, Add(One, nu)))>> >>)

\* C5: after an eval_into of the isotropic evaluator on the flat unit square
\* with uniform E and nu, the 3 x 3 tensor of every query column whose
\* scale factor z is 1 is the analytic plane-stress tensor: E/(1-nu^2) at
\* (0,0) and (1,1), nu*E/(1-nu^2) at (0,1) and (1,0), E/(2(1+nu)) at (2,2)
\* and zero elsewhere.
C5_IsotropicPlaneStress ==
    (/\ call.op = "gsMaterialMatrix"
     /\ ~call.failed
     /\ materialMat.mp = PatchSquare
     /\ IsConstant(materialMat.YoungsModulus)
     /\ IsConstant(materialMat.PoissonRatio)) =>
        \A j \in 0..(call.u.cols - 1) :
            At(call.u, 2, j) = One =>
                Reshape(ColMat(Col(result, j)), 3, 3) =
                    PlaneStress(materialMat.YoungsModulus.comps[1][1].c,
                                materialMat.PoissonRatio.comps[1][1].c)

\* C6: after an eval_into of the laminate evaluator that was not aborted,
\* the result has 9 rows and one column per query point, and every column
\* is the one flattened laminate tensor.
C6_LaminateReplicated ==
    (call.op = "gsMaterialMatrixD" /\ ~call.failed) =>
        /\ result.rows = 9
        /\ result.cols = call.u.cols
        /\ \A j \in 0..(result.cols - 1) : Col(result, j) = Col(result, 0)

\* C7: an eval_into of the laminate evaluator that the elastic symmetry of
\* some ply aborted has built no ply's Dmat or Tmat, rotated nothing and
\* accumulated nothing into the result.
C7_SymmetryBeforeMatrices ==
    (call.op = "gsMaterialMatrixD" /\ call.assert = "nu21*E1 == nu12*E2") =>
        \A ev \in {"Dmat", "Tmat", "rotate", "accumulate"} : EventsOf(call.log, ev) = {}

\* C8: after an eval_into of the laminate evaluator on a single ply with
\* phi = 0, Tmat is the identity and the result is exactly the ply's
\* orthotropic stiffness matrix Dmat times the ply's thickness.
C8_SinglePlyReduces ==
    (/\ call.op = "gsMaterialMatrixD"
     /\ ~call.failed
     /\ Len(laminate.phi) = 1
     /\ laminate.phi[1] = Angle0) =>
        /\ laminate.Tmat = Identity3
        /\ Reshape(result, 3, 3) =
               MatScale(MaterialMatrixD_Dmat(laminate.YoungsModuli[1][1],
                                             laminate.YoungsModuli[1][2],
                                             laminate.ShearModuli[1],
                                             laminate.PoissonRatios[1][1],
                                             laminate.PoissonRatios[1][2]),
                        laminate.thickness[1])

\* the five sequences of the laminate have one length, and it is not zero
SizesOK(self) ==
    /\ Len(self.YoungsModuli) = Len(self.PoissonRatios)
    /\ Len(self.YoungsModuli) = Len(self.ShearModuli)
    /\ Len(self.YoungsModuli) = Len(self.thickness)
    /\ Len(self.YoungsModuli) = Len(self.phi)
    /\ Len(self.YoungsModuli) # 0
\* every ply of the laminate is elastically symmetric, nu21*E1 == nu12*E2
\* for the doubles that the evaluator holds
ElasticallySymmetric(self) ==
    \A k \in 1..Len(self.YoungsModuli) :
        DoubleMul(DoubleOf(self.PoissonRatios[k][2]), DoubleOf(self.YoungsModuli[k][1])) =
            DoubleMul(DoubleOf(self.PoissonRatios[k][1]), DoubleOf(self.YoungsModuli[k][2]))

\* C9: an eval_into of the laminate evaluator whose five sequences are not
\* of one length, or are empty, is aborted by an assertion on the sizes
\* before the total thickness is computed, anything is resized or any ply
\* matrix is built, and leaves the result and the scratch members as they
\* were; one whose five sequences have one non-zero length is not aborted
\* by an assertion on the sizes, and is not aborted at all when every ply is
\* elastically symmetric.
C9_SizeChecksFirst ==
    call.op = "gsMaterialMatrixD" =>
        /\ ~SizesOK(laminate) =>
               /\ call.failed
               /\ call.assert \notin {"", "nu21*E1 == nu12*E2", "t_tot==t_temp"}
               /\ call.log = <<[ev |-> "GISMO_ASSERT", ply |-> -1]>>
               /\ result = EmptyMat
               /\ laminate.t_tot = Zero
               /\ laminate.Dmat = EmptyMat
               /\ laminate.Tmat = EmptyMat
        /\ SizesOK(laminate) =>
               /\ call.assert \in {"", "nu21*E1 == nu12*E2", "t_tot==t_temp"}
               /\ EventsOf(call.log, "t_tot") # {}
        /\ (SizesOK(laminate) /\ ElasticallySymmetric(laminate)) => ~call.failed
\* two plies with only one angle: the call is aborted on the sizes
C9_Witness ==
    /\ call.op = "gsMaterialMatrixD"
    /\ call.failed
    /\ Len(laminate.YoungsModuli) = 2
    /\ Len(laminate.phi) = 1
    /\ call.assert = "_thickness.size()==_phi.size()"
    /\ result = EmptyMat


\* the piece objects that piece() calls on e have created so far
PiecesOf(h, e) == {p \in Objs : h[p].kind = "piece" /\ h[p].owner = e}
AliveOf(h, S) == {p \in S : h[p].state = "alive"}

\* C11: an evaluator on which piece() was never called holds no piece and
\* none was created for it; an evaluator that is alive after piece() calls
\* holds the piece its latest call created, that piece is the only one of
\* its pieces alive and every earlier one was destroyed, once; and no piece
\* of a destroyed evaluator is alive.
C11_SinglePieceSlot ==
    \A e \in Objs :
        LET h == pieces.objs
            P == PiecesOf(h, e)
        IN  h[e].kind = "evaluator" =>
                /\ Cardinality(P) = h[e].calls
                /\ h[e].calls = 0 => h[e].mm_piece = 0
                /\ (h[e].state = "alive" /\ h[e].calls > 0) =>
                       /\ h[e].mm_piece \in P
                       /\ \A p \in P : p <= h[e].mm_piece
                       /\ AliveOf(h, P) = {h[e].mm_piece}
                /\ h[e].state = "destroyed" => AliveOf(h, P) = {}
                /\ \A p \in P : h[p].deletes = IF h[p].state = "alive" THEN 0 ELSE 1
\* an evaluator over two patches, object 2, after piece(0) and piece(1):
\* object 3 was destroyed and object 4, for patch 1, is its piece
C11_Witness ==
    /\ pieces.objs[2].state = "alive"
    /\ pieces.objs[2].kind = "evaluator"
    /\ pieces.objs[2].npatches = 2
    /\ pieces.objs[2].calls = 2
    /\ pieces.objs[2].mm_piece = 4
    /\ pieces.objs[3].state = "destroyed"
    /\ pieces.objs[4].state = "alive"
    /\ pieces.objs[4].patch = 1

\* C16: no gsMaterialMatrix object is ever deleted twice, and no object
\* that is alive holds a pointer to a piece that was destroyed.
C16_NoSharedPiece ==
    /\ ~DoubleDelete(pieces.objs)
    /\ \A e \in Objs :
           (pieces.objs[e].state = "alive" /\ pieces.objs[e].mm_piece # 0) =>
               pieces.objs[pieces.objs[e].mm_piece].state = "alive"

\* C12: whatever the caller has done to the fields and ply data that the
\* evaluators were constructed from, every evaluator still reads the fields
\* it was constructed with, and the result of every call that was not
\* aborted is the one the construction-time fields give: the adapter's with
\* its current base point, the fixed-bound integrator's with the base point
\* the adapter had when the integrator was built from it.
C12_CloneOnConstruct ==
    LET fun == MainOrigin.fun.val
        mm == MaterialMatrix(MainOrigin.mp.val, MainOrigin.E.val, MainOrigin.nu.val)
        ok == ~call.failed
    IN  /\ integrant.fun = fun
        /\ integratorZ = CloneIntegratorZ
        /\ integrate.fun = fun /\ integrate.t = MainOrigin.thickFun.val
        /\ [laminate EXCEPT !.t_tot = Zero, !.t_temp = Zero, !.z = Zero, !.z_mid = Zero,
                            !.Dmat = EmptyMat, !.Tmat = EmptyMat]
               = LaminateOf(MainOrigin.plies.val, "")
        /\ (ok /\ call.op = "gsIntegrantZ") =>
               Col(result, 0) = EvalPoint(fun, Col(lastPoint, 0) \o <<At(call.u, 0, 0)>>)
        /\ (ok /\ call.op = "gsIntegrateZ") =>
               result = IntegrateZ_eval_into(CloneIntegratorZ, call.u, EmptyMat, Zeroed).result
        /\ (ok /\ call.op = "gsIntegrate") =>
               result = Integrate_eval_into(Integrate(fun, MainOrigin.thickFun.val), call.u,
                                            EmptyMat, Zeroed).result
        /\ (ok /\ call.op = "gsMaterialMatrix") =>
               result = MaterialMatrix_eval_into(mm, call.u, EmptyMat, Zeroed,
                                                 call.log[1].inverse).result

\* C13: the result of an eval_into depends on nothing an earlier call left
\* behind: when the laminate evaluator is called twice in a row with the same
\* query points and the same output matrix, and neither call is aborted, the
\* second call leaves in the output matrix the values the first one left.
C13_NoCrossCallDependency ==
    [][(/\ call.op = "gsMaterialMatrixD" /\ ~call.failed
        /\ call'.op = "gsMaterialMatrixD" /\ ~call'.failed
        /\ ncalls' = ncalls + 1
        /\ call'.u = call.u) => result' = result]_vars

\* the grids constructed during a gsIntegrate::eval_into: the iterations of
\* its double loop that built a knot vector KV
GridConstructions(log) == {k \in 1..Len(log) : log[k].ev = "integral" /\ "KV" \in DOMAIN log[k]}

\* C14 as stated: an eval_into of the variable-bound integrator on N query
\* points that is not aborted constructs exactly N grids, one per query
\* point, whatever the number of output components.
C14_OneGridPerPoint ==
    (call.op = "gsIntegrate" /\ ~call.failed) =>
        /\ Cardinality(GridConstructions(call.log)) = call.u.cols
        /\ \A j \in 0..(call.u.cols - 1) :
               Cardinality({k \in GridConstructions(call.log) : call.log[k].j = j}) = 1

\* C14, amended: an eval_into of the variable-bound integrator on N query
\* points of a field with targetDim components that is not aborted
\* constructs exactly N * targetDim grids, one for every pair of an output
\* component and a query point, and the grids of one query point are equal:
\* each runs from -thickness(u_j)/2 to +thickness(u_j)/2.
C14_OneGridPerIteration ==
    (call.op = "gsIntegrate" /\ ~call.failed) =>
        LET f == integrate.fun
            u == call.u
            grids == GridConstructions(call.log)
        IN  /\ Cardinality(grids) = u.cols * targetDim(f)
            /\ \A i \in 0..(targetDim(f) - 1), j \in 0..(u.cols - 1) :
                   LET built == {k \in grids : call.log[k].i = i /\ call.log[k].j = j}
                   IN  /\ Cardinality(built) = 1
                       /\ \A k \in built :
                              call.log[k].KV =
                                  Integrate_KV(Div(ExprValue(integrate.t.comps[1], Col(u, j)),
                                                   Two)).breaks
\* "1*x","2*y","x*y*z^2" on two query points: six grids, not two
C14_Witness ==
    /\ call.op = "gsIntegrate"
    /\ ~call.failed
    /\ integrate.fun = FunXYZ
    /\ call.u.cols = 2
    /\ Cardinality(GridConstructions(call.log)) = 6

\* the query point (x, y, z) of column j of u with z replaced by s
WithZ(u, j, s) == ColMat(<<At(u, 0, j), At(u, 1, j), s>>)
\* what the isotropic evaluator self gives at the single query point p
MaterialAt(self, p, a) ==
    <<>> \o Col(MaterialMatrix_eval_into(self, p, EmptyMat, Zeroed, a).result, 0)

\* C15: after an eval_into of the isotropic evaluator, the tensor of every
\* query column (x, y, z) is z times the tensor the evaluator gives at
\* (x, y, 1), so it is zero when z = 0 and it is the negative of the tensor
\* at (x, y, -z); and the 3 x 3 tensor of every column is symmetric.
C15_LinearInZSymmetric ==
    (call.op = "gsMaterialMatrix" /\ ~call.failed) =>
        \A j \in 0..(call.u.cols - 1) :
            \E z \in {At(call.u, 2, j)}, c \in {<<>> \o Col(result, j)} :
            \E unit \in {MaterialAt(materialMat, WithZ(call.u, j, One),
                                    call.log[j + 1].inverse)},
               mirrored \in {MaterialAt(materialMat, WithZ(call.u, j, Neg(z)),
                                        call.log[j + 1].inverse)},
               C \in {Reshape(ColMat(c), 3, 3)} :
                /\ Len(c) = 9
                /\ \A k \in 1..9 : c[k] = Mul(z, unit[k])
                /\ z = Zero => \A k \in 1..9 : c[k] = Zero
                /\ \A k \in 1..9 : c[k] = Neg(mirrored[k])
                /\ \A a \in 0..2, b \in 0..2 : At(C, a, b) = At(C, b, a)
\* the sheared patch at the columns (1,2,2) and (2,1,0): a tensor with
\* off-diagonal entries in the first column, the zero tensor in the second
C15_Witness ==
    /\ call.op = "gsMaterialMatrix"
    /\ ~call.failed
    /\ materialMat.mp = PatchSheared
    /\ call.u.cols = 2
    /\ At(call.u, 2, 0) = Two
    /\ At(call.u, 2, 1) = Zero
    /\ At(result, 0, 0) # Zero
    /\ At(result, 2, 0) # Zero
    /\ \A k \in 0..8 : At(result, k, 1) = Zero

====
